---- MODULE Spec2Model ----
(***************************************************************************)
(* Model of buscador_documentos.py: the DocumentSearcher engine            *)
(* (validation, enumeration, per-file extraction, matching, progress       *)
(* reporting, cooperative cancellation, per-file error handling).          *)
(*                                                                         *)
(* Text is a sequence of one-character strings.  A file is described by    *)
(* what the operating system and the format libraries return for it.       *)
(***************************************************************************)
EXTENDS Naturals, Integers, Sequences, FiniteSets, TLC

(* ------------------------------------------------------------------ *)
(* Bounds of the model                                                  *)
(* ------------------------------------------------------------------ *)

\* longest file text drawn for the text scenarios
MaxLen == 3

\* longest search term drawn
MaxTermLen == 2

\* most files in the searched directory
MaxFiles == 2

\* most pages (paragraphs) of a document
MaxPages == 2

\* the most calls of search_in_directory made on one engine
MaxRuns == 2

(* ------------------------------------------------------------------ *)
(* Text: str methods used by the engine                                 *)
(* ------------------------------------------------------------------ *)

Letters == {"a", "A"}

Whitespace == {" ", "\n"}

\* all sequences over S of length at most n
SeqsUpTo(S, n) == UNION {[1..k -> S] : k \in 0..n}

\* the upper-case letters that occur in the model, with their lower case
UpperToLower ==
  [A |-> "a", D |-> "d", F |-> "f", P |-> "p", T |-> "t", X |-> "x"]

\* str.lower() on one character
LowerChar(c) == IF c \in DOMAIN UpperToLower THEN UpperToLower[c] ELSE c

\* str.lower()
Lower(s) == [i \in 1..Len(s) |-> LowerChar(s[i])]

\* str.strip(): drop leading and trailing whitespace
RECURSIVE LStrip(_)
LStrip(s) == IF s # <<>> /\ Head(s) \in Whitespace THEN LStrip(Tail(s)) ELSE s

RECURSIVE RStrip(_)
RStrip(s) ==
  IF s # <<>> /\ s[Len(s)] \in Whitespace THEN RStrip(SubSeq(s, 1, Len(s) - 1)) ELSE s

Strip(s) == RStrip(LStrip(s))

\* the term occurs in s at position i (1-based)
OccursAt(t, s, i) == i >= 1 /\ i + Len(t) - 1 <= Len(s) /\ SubSeq(s, i, i + Len(t) - 1) = t

\* Python's "t in s" on strings
StrIn(t, s) == \E i \in 1..(Len(s) + 1) : OccursAt(t, s, i)

\* a count that resumes one character after the start of each occurrence
RECURSIVE CountFromOverlapping(_, _, _)
CountFromOverlapping(s, t, i) ==
  IF i + Len(t) - 1 > Len(s) THEN 0
  ELSE IF OccursAt(t, s, i) THEN 1 + CountFromOverlapping(s, t, i + 1)
  ELSE CountFromOverlapping(s, t, i + 1)

\* str.count(t): occurrences found scanning left to right, the scan resuming
\* after the end of each occurrence found
RECURSIVE CountFrom(_, _, _)
CountFrom(s, t, i) ==
  IF i + Len(t) - 1 > Len(s) THEN 0
  ELSE IF OccursAt(t, s, i) THEN 1 + CountFrom(s, t, i + Len(t))
  ELSE CountFrom(s, t, i + 1)

StrCount(s, t) == IF t = <<>> THEN Len(s) + 1 ELSE CountFrom(s, t, 1)

\* sep.join(parts)
RECURSIVE Join(_, _)
Join(sep, parts) ==
  IF parts = <<>> THEN <<>>
  ELSE IF Len(parts) = 1 THEN parts[1]
  ELSE parts[1] \o sep \o Join(sep, Tail(parts))

IsNonEmpty(t) == t # <<>>

IsNonBlank(t) == Strip(t) # <<>>

(* ------------------------------------------------------------------ *)
(* Files: what the file system and the format libraries return          *)
(* ------------------------------------------------------------------ *)

Failed == [ok |-> FALSE, parts |-> <<>>]

Parsed(parts) == [ok |-> TRUE, parts |-> parts]

NoPage == [ok |-> FALSE, text |-> <<>>]

Page(t) == [ok |-> TRUE, text |-> t]

NoRaster == [ok |-> FALSE, pages |-> <<>>]

Raster(pages) == [ok |-> TRUE, pages |-> pages]

\* One entry met by the directory walk.
\*   kind     "file", "dir", or "denied" (the walk raises PermissionError here)
\*   suffix   the extension, without its dot, as written on disk
\*   readable open() succeeds
\*   utf8     the bytes decoded as UTF-8 (ok = FALSE: UnicodeDecodeError)
\*   latin1   the bytes decoded as Latin-1 (never fails)
\*   doc      what the format library reads: paragraphs (docx), page texts
\*            (pdf), cell strings (xlsx); ok = FALSE: the library raises
\*   raster   pdf2image's pages and, per page, pytesseract's text;
\*            ok = FALSE: the call raises
Entry(kind, suffix, readable, utf8, latin1, doc, raster) ==
  [kind |-> kind, suffix |-> suffix, readable |-> readable, utf8 |-> utf8,
   latin1 |-> latin1, doc |-> doc, raster |-> raster]

ExtTxt == <<"t", "x", "t">>
ExtDocx == <<"d", "o", "c", "x">>
ExtPdf == <<"p", "d", "f">>
ExtXlsx == <<"x", "l", "s", "x">>
ExtXls == <<"x", "l", "s">>
ExtHtml == <<"h", "t", "m", "l">>
ExtHtm == <<"h", "t", "m">>
ExtPhp == <<"p", "h", "p">>
ExtJpg == <<"j", "p", "g">>
ExtPdfUpper == <<"P", "D", "F">>
ExtTxtUpper == <<"T", "X", "T">>

SUPPORTED_EXTENSIONS ==
  {ExtTxt, ExtDocx, ExtPdf, ExtXlsx, ExtXls, ExtHtml, ExtHtm, ExtPhp}

\* a plain-text file holding valid UTF-8
TextFile(suffix, t) ==
  Entry("file", suffix, TRUE, [ok |-> TRUE, text |-> t], t, Failed, NoRaster)

\* a plain-text file whose bytes are not valid UTF-8
Latin1File(suffix, t) ==
  Entry("file", suffix, TRUE, [ok |-> FALSE, text |-> <<>>], t, Failed, NoRaster)

\* a file that open() refuses
UnreadableFile(suffix) ==
  Entry("file", suffix, FALSE, [ok |-> FALSE, text |-> <<>>], <<>>, Failed, NoRaster)

\* a document read by a format library
DocFile(suffix, doc, raster) ==
  Entry("file", suffix, TRUE, [ok |-> FALSE, text |-> <<>>], <<>>, doc, raster)

Directory(suffix) ==
  Entry("dir", suffix, FALSE, [ok |-> FALSE, text |-> <<>>], <<>>, Failed, NoRaster)

Denied ==
  Entry("denied", <<>>, FALSE, [ok |-> FALSE, text |-> <<>>], <<>>, Failed, NoRaster)

(* ------------------------------------------------------------------ *)
(* Extraction.  A call returns a text or raises; it also records which  *)
(* external tools it invoked.                                           *)
(*   exc     the call raised                                            *)
(*   text    the text returned                                          *)
(*   raster  convert_from_path was called                               *)
(*   recog   image_to_string was called                                 *)
(*   native  the native reader of the format was called                 *)
(*   pages   the number of calls of image_to_string                     *)
(* ------------------------------------------------------------------ *)

Ret(t, raster, recog, native) ==
  [exc |-> FALSE, text |-> t, raster |-> raster, recog |-> recog, native |-> native,
   pages |-> 0]

Exc(raster, recog, native) ==
  [exc |-> TRUE, text |-> <<>>, raster |-> raster, recog |-> recog, native |-> native,
   pages |-> 0]

\* the same outcome, after the tools in o0 were invoked as well
After(o0, o) ==
  [o EXCEPT !.raster = @ \/ o0.raster, !.recog = @ \/ o0.recog,
            !.native = @ \/ o0.native, !.pages = @ + o0.pages]

\* the same outcome, image_to_string having been called n times
WithPages(o, n) == [o EXCEPT !.pages = n]

\* _debug_log: does a call raise?  Without a sink it only prints; a sink is
\* the caller's function and may raise.
DebugLogRaises(sink) == IF sink THEN {FALSE, TRUE} ELSE {FALSE}

\* _read_txt
ReadTxt(f) ==
  IF ~f.readable THEN Exc(FALSE, FALSE, TRUE)
  ELSE IF f.utf8.ok THEN Ret(f.utf8.text, FALSE, FALSE, TRUE)
  ELSE Ret(f.latin1, FALSE, FALSE, TRUE)

\* _read_docx
ReadDocx(f, env) ==
  IF ~env.DOCX_AVAILABLE THEN Ret(<<>>, FALSE, FALSE, FALSE)
  ELSE IF ~f.readable \/ ~f.doc.ok THEN Exc(FALSE, FALSE, TRUE)
  ELSE Ret(Join(<<"\n">>, f.doc.parts), FALSE, FALSE, TRUE)

\* _read_pdf
ReadPdf(f, env) ==
  IF ~env.PDF_AVAILABLE THEN Ret(<<>>, FALSE, FALSE, FALSE)
  ELSE IF ~f.readable \/ ~f.doc.ok THEN Exc(FALSE, FALSE, TRUE)
  ELSE Ret(Join(<<"\n">>, SelectSeq(f.doc.parts, IsNonEmpty)), FALSE, FALSE, TRUE)

\* _read_excel
ReadExcel(f, env) ==
  IF ~env.EXCEL_AVAILABLE THEN Ret(<<>>, FALSE, FALSE, FALSE)
  ELSE IF ~f.readable \/ ~f.doc.ok THEN Exc(FALSE, FALSE, TRUE)
  ELSE Ret(Join(<<" ">>, f.doc.parts), FALSE, FALSE, TRUE)

\* the per-page loop of _extract_text_with_ocr over the rasterized pages:
\*   crit   an exception left the loop (to the function's own handler)
\*   parts  the page texts kept
\*   recog  image_to_string was called
\*   n      the number of calls of image_to_string
RECURSIVE OcrPages(_, _)
OcrPages(pages, sink) ==
  IF pages = <<>> THEN {[crit |-> FALSE, parts |-> <<>>, recog |-> FALSE, n |-> 0]}
  ELSE
    LET p == Head(pages)
        keeps == p.ok /\ IsNonBlank(p.text)
        here ==
          \* the sink raises in the page's first two log lines
          (IF sink THEN {[r |-> "crit", recog |-> FALSE]} ELSE {})
          \* the page's own handler logs, and the sink raises there
          \cup (IF sink THEN {[r |-> "crit", recog |-> TRUE]} ELSE {})
          \* recognition raised, the page is blank, or the sink raised in a
          \* log line of the page's try block: the page is skipped
          \cup (IF ~keeps \/ sink THEN {[r |-> "skip", recog |-> TRUE]} ELSE {})
          \cup (IF keeps THEN {[r |-> "keep", recog |-> TRUE]} ELSE {})
    IN UNION {
         IF h.r = "crit"
         THEN {[crit |-> TRUE, parts |-> <<>>, recog |-> h.recog,
                n |-> IF h.recog THEN 1 ELSE 0]}
         ELSE {[crit |-> rest.crit,
                parts |-> IF h.r = "keep" THEN <<p.text>> \o rest.parts ELSE rest.parts,
                recog |-> h.recog \/ rest.recog,
                n |-> (IF h.recog THEN 1 ELSE 0) + rest.n]
               : rest \in OcrPages(Tail(pages), sink)}
         : h \in here}

\* _extract_text_with_ocr: the set of its possible outcomes
ExtractTextWithOcr(f, env, sink) ==
  IF ~env.OCR_AVAILABLE
  THEN {Ret(<<>>, FALSE, FALSE, FALSE)}
       \cup (IF sink THEN {Exc(FALSE, FALSE, FALSE)} ELSE {})
  ELSE
    LET Raise(raster, recog, n) ==
          [raise |-> TRUE, text |-> <<>>, raster |-> raster, recog |-> recog, n |-> n]
        body ==
          (IF sink THEN {Raise(FALSE, FALSE, 0)} ELSE {})
          \cup
          (IF ~f.readable \/ ~f.raster.ok THEN {Raise(TRUE, FALSE, 0)}
           ELSE (IF sink THEN {Raise(TRUE, FALSE, 0)} ELSE {})
                \cup UNION {
                  IF r.crit THEN {Raise(TRUE, r.recog, r.n)}
                  ELSE {[raise |-> FALSE, text |-> Join(<<"\n", "\n">>, r.parts),
                         raster |-> TRUE, recog |-> r.recog, n |-> r.n]}
                       \cup (IF sink THEN {Raise(TRUE, r.recog, r.n)} ELSE {})
                  : r \in OcrPages(f.raster.pages, sink)})
    IN UNION {
         IF b.raise
         THEN {WithPages(Ret(<<>>, b.raster, b.recog, FALSE), b.n)}
              \cup (IF sink THEN {WithPages(Exc(b.raster, b.recog, FALSE), b.n)} ELSE {})
         ELSE {WithPages(Ret(b.text, b.raster, b.recog, FALSE), b.n)}
         : b \in body}

\* a configured path: neither None nor the empty string
IsSet(path) == path \notin {"None", ""}

\* _read_pdf_with_ocr: the set of its possible outcomes
ReadPdfWithOcr(f, env, tesseract, poppler, sink) ==
  IF ~env.OCR_AVAILABLE \/ ~IsSet(tesseract) \/ ~IsSet(poppler)
  THEN (IF sink THEN {Exc(FALSE, FALSE, FALSE)} ELSE {}) \cup {ReadPdf(f, env)}
  ELSE
    LET Fallback(o0) ==
          (IF sink THEN {After(o0, Exc(FALSE, FALSE, FALSE))} ELSE {})
          \cup {After(o0, ReadPdf(f, env))}
    IN (IF sink THEN Fallback(Ret(<<>>, FALSE, FALSE, FALSE)) ELSE {})
       \cup UNION {
         IF o.exc THEN Fallback(o)
         ELSE {o} \cup (IF sink THEN Fallback(o) ELSE {})
         : o \in ExtractTextWithOcr(f, env, sink)}

\* the reader _extract_text_from_file picks for the file
Dispatch(f, use_ocr, env, tesseract, poppler, sink) ==
  LET extension == Lower(f.suffix) IN
  IF extension = ExtTxt THEN {ReadTxt(f)}
  ELSE IF extension = ExtDocx /\ env.DOCX_AVAILABLE THEN {ReadDocx(f, env)}
  ELSE IF extension = ExtPdf /\ env.PDF_AVAILABLE
    THEN IF use_ocr THEN ReadPdfWithOcr(f, env, tesseract, poppler, sink)
         ELSE {ReadPdf(f, env)}
  ELSE IF extension \in {ExtXlsx, ExtXls} /\ env.EXCEL_AVAILABLE THEN {ReadExcel(f, env)}
  ELSE IF extension \in {ExtHtml, ExtHtm, ExtPhp} THEN {ReadTxt(f)}
  ELSE {Ret(<<>>, FALSE, FALSE, FALSE)}

\* _extract_text_from_file: the set of its possible outcomes.  An exception of
\* the reader is logged and becomes the empty text; the log call is outside
\* any handler.
ExtractTextFromFile(f, use_ocr, env, tesseract, poppler, sink) ==
  UNION {
    IF o.exc
    THEN {After(o, Ret(<<>>, FALSE, FALSE, FALSE))}
         \cup (IF sink THEN {After(o, Exc(FALSE, FALSE, FALSE))} ELSE {})
    ELSE {o}
    : o \in Dispatch(f, use_ocr, env, tesseract, poppler, sink)}

\* _get_supported_files over the entries in the order the walk meets them
RECURSIVE GetSupportedFiles(_)
GetSupportedFiles(entries) ==
  IF entries = <<>> THEN <<>>
  ELSE IF Head(entries).kind = "denied" THEN <<>>
  ELSE (IF Head(entries).kind = "file" /\ Lower(Head(entries).suffix) \in SUPPORTED_EXTENSIONS
        THEN <<Head(entries)>> ELSE <<>>)
       \o GetSupportedFiles(Tail(entries))

(* ------------------------------------------------------------------ *)
(* Matching (search_in_directory, the body of the loop)                 *)
(* ------------------------------------------------------------------ *)

\* a normalization that forgets .lower()
NormalizeIdentity(s, case_sensitive) == s

\* "x if case_sensitive else x.lower()", applied to the term and to the content
Normalize(s, case_sensitive) == IF case_sensitive THEN s ELSE Lower(s)

\* a validation that tests the term without .strip()
RequestIsValidNoStrip(exists, search_term) == exists /\ search_term # <<>>

\* the request passes the two checks that open search_in_directory
RequestIsValid(exists, search_term) == exists /\ Strip(search_term) # <<>>

\* the occurrences the loop records for a content, 0 when it records nothing
Occurrences(term, content, case_sensitive) ==
  IF content = <<>> THEN 0
  ELSE IF StrIn(term, Normalize(content, case_sensitive))
       THEN StrCount(Normalize(content, case_sensitive), term)
       ELSE 0

\* a progress computed from the 0-based index
ProgressValueZeroBased(index, total_files) ==
  [num |-> (index - 1) * 100, den |-> total_files]

\* a progress computed from the index of the file to come
ProgressValueAhead(index, total_files) ==
  [num |-> (index + 1) * 100, den |-> total_files]

\* the progress value handed to the callback, (index / total_files) * 100,
\* kept as the exact fraction num / den
ProgressValue(index, total_files) == [num |-> index * 100, den |-> total_files]

(* ------------------------------------------------------------------ *)
(* State                                                                *)
(* ------------------------------------------------------------------ *)

VARIABLES
  env,               \* the module's *_AVAILABLE flags
  disk,              \* the entries under the directory "docs", in walk order
  debug_callback,    \* DocumentSearcher.debug_callback: "None" or "sink"
  tesseract_path,    \* DocumentSearcher.tesseract_path
  poppler_path,      \* DocumentSearcher.poppler_path
  results,           \* DocumentSearcher.results
  search_cancelled,  \* DocumentSearcher.search_cancelled
  use_ocr,           \* DocumentSearcher.use_ocr
  req,               \* the arguments of the call of search_in_directory
  pc,                \* where the call stands
  normalized_term,   \* local of search_in_directory
  files_to_search,   \* local of search_in_directory
  index,             \* the loop's index (1-based)
  content,           \* local of search_in_directory
  outcome,           \* how the call ended: "none", "returned", "ValueError", "raised"
  enumerated,        \* history: _get_supported_files was called
  attempted,         \* history: the files the loop has taken up
  extracted,         \* history: the calls of _extract_text_from_file
  calls,             \* history: the calls of the progress callback
  cancel,            \* history: where the run stood at the first cancel_search
  config,            \* ConfigManager.config, as far as the two paths go
  installed,         \* the tool paths that exist on the file system
  pytesseract_bound, \* the module-level name pytesseract is bound
  tesseract_cmd,     \* pytesseract.pytesseract.tesseract_cmd
  last_call,         \* history: the last set_*_path call and what it returned
  run,               \* history: the number of calls of search_in_directory so far
  origin,            \* history: for each record of results, the call that appended it
  carried,           \* history: the run state the call before left behind
  search_button,     \* DocumentSearcherGUI.search_button's state
  cancel_button,     \* DocumentSearcherGUI.cancel_button's state
  results_tree,      \* the rows of DocumentSearcherGUI.results_tree
  progress_var,      \* DocumentSearcherGUI.progress_var
  status_var,        \* DocumentSearcherGUI.status_var, by kind of message
  after_queue,       \* the callbacks queued with root.after(0, ...), oldest first
  threads,           \* the threads running _perform_search, in launch order
  heap,              \* the list objects self.results was bound to before
  touched,           \* history: the widgets a worker thread wrote to
  cancelled_at       \* history: per thread, the files it had taken up when the
                     \* cancel button was first pressed during its search, or -1

\* the state of the graphical shell and of its worker threads
gui ==
  <<search_button, cancel_button, results_tree, progress_var, status_var,
    after_queue, threads, heap, touched, cancelled_at>>

\* the configuration state, which a search never writes
settings == <<config, installed, pytesseract_bound, tesseract_cmd, last_call>>

vars ==
  <<env, disk, debug_callback, tesseract_path, poppler_path, results,
    search_cancelled, use_ocr, req, pc, normalized_term, files_to_search, index,
    content, outcome, enumerated, attempted, extracted, calls, cancel, settings,
    run, origin, carried, gui>>

\* the paths that exist on the file system
Exists(path) == path = "docs"

NoCancel == [requested |-> FALSE, processed |-> 0, started |-> 0, attempts |-> 0]

HasSink == debug_callback # "None"

\* a thread that was not launched yet
NoThread ==
  [pc |-> "unborn", req |-> <<>>, index |-> 0, content |-> <<>>, ret |-> 0,
   exc |-> "none"]

\* DocumentSearcherGUI as _create_widgets leaves it
GuiCreated ==
  /\ search_button = "normal"
  /\ cancel_button = "disabled"
  /\ results_tree = <<>>
  /\ progress_var = [num |-> 0, den |-> 1]
  /\ status_var = "ready"
  /\ after_queue = <<>>
  /\ threads = [w \in 1..MaxRuns |-> NoThread]
  /\ heap = <<>>
  /\ touched = {}
  /\ cancelled_at = [w \in 1..MaxRuns |-> -1]

\* no call of search_in_directory came before
NothingCarried == [cancelled |-> FALSE, records |-> 0]

\* no set_*_path call was made yet
NoCall == [op |-> "none", path |-> "None", ret |-> "none", seq |-> 0]

total_files == Len(files_to_search)

\* the files whose extraction and matching are over
Processed ==
  IF pc \in {"extract", "match"} THEN attempted - 1 ELSE attempted

(* ------------------------------------------------------------------ *)
(* Operations                                                           *)
(* ------------------------------------------------------------------ *)

\* the caller invokes search_in_directory(directory, search_term, ...)
Call ==
  /\ pc = "idle"
  /\ pc' = "validate"
  /\ UNCHANGED settings
  /\ UNCHANGED carried
  /\ UNCHANGED gui
  /\ run' = run + 1
  /\ UNCHANGED origin
  /\ UNCHANGED <<env, disk, debug_callback, tesseract_path, poppler_path, results,
                 search_cancelled, use_ocr, req, normalized_term, files_to_search,
                 index, content, outcome, enumerated, attempted, extracted, calls, cancel>>

\* cancel_search, from any thread at any time
cancel_search ==
  /\ search_cancelled' = TRUE
  /\ cancel' =
       IF ~cancel.requested /\ pc \in {"start", "loop", "extract", "match",
                                        "progress", "except", "end"}
       THEN [requested |-> TRUE, processed |-> Processed, started |-> attempted,
             attempts |-> Len(extracted)]
       ELSE cancel
  /\ UNCHANGED settings
  /\ UNCHANGED carried
  /\ UNCHANGED gui
  /\ UNCHANGED <<run, origin>>
  /\ UNCHANGED <<env, disk, debug_callback, tesseract_path, poppler_path, results,
                 use_ocr, req, pc, normalized_term, files_to_search, index,
                 content, outcome, enumerated, attempted, extracted, calls>>

\* a search_in_directory that keeps the list and the flag of the call before
ValidateNoReset ==
  /\ pc = "validate"
  /\ IF ~RequestIsValid(Exists(req.directory), req.search_term)
     THEN /\ pc' = "done"
          /\ outcome' = "ValueError"
          /\ UNCHANGED <<use_ocr, normalized_term>>
     ELSE /\ use_ocr' = req.use_ocr
          /\ normalized_term' = Normalize(req.search_term, req.case_sensitive)
          /\ pc' = "start"
          /\ UNCHANGED outcome
  /\ UNCHANGED <<results, search_cancelled, origin, settings, run, carried, gui>>
  /\ UNCHANGED <<env, disk, debug_callback, tesseract_path, poppler_path, req,
                 files_to_search, index, content, enumerated, attempted, extracted, calls,
                 cancel>>

\* search_in_directory: the two checks, then the reset of the run state
Validate ==
  /\ pc = "validate"
  /\ IF ~RequestIsValid(Exists(req.directory), req.search_term)
     THEN /\ pc' = "done"
          /\ outcome' = "ValueError"
          /\ UNCHANGED <<results, search_cancelled, use_ocr, normalized_term>>
     ELSE /\ results' = <<>>
          /\ search_cancelled' = FALSE
          /\ use_ocr' = req.use_ocr
          /\ normalized_term' = Normalize(req.search_term, req.case_sensitive)
          /\ pc' = "start"
          /\ UNCHANGED outcome
  /\ origin' = (IF RequestIsValid(Exists(req.directory), req.search_term)
                THEN <<>> ELSE origin)
  /\ UNCHANGED settings
  /\ UNCHANGED carried
  /\ UNCHANGED gui
  /\ UNCHANGED run
  /\ UNCHANGED <<env, disk, debug_callback, tesseract_path, poppler_path, req,
                 files_to_search, index, content, enumerated, attempted, extracted, calls,
                 cancel>>

\* search_in_directory: the opening log lines, the enumeration, the log line
\* with the count, and the return of an empty enumeration
Start ==
  /\ pc = "start"
  /\ \E raises \in {"no"} \cup (IF HasSink THEN {"before", "after"} ELSE {}) :
       IF raises = "before"
       THEN /\ pc' = "done"
            /\ outcome' = "raised"
            /\ UNCHANGED <<files_to_search, enumerated, index>>
       ELSE /\ files_to_search' = GetSupportedFiles(disk)
            /\ enumerated' = TRUE
            /\ IF raises = "after"
               THEN pc' = "done" /\ outcome' = "raised" /\ UNCHANGED index
               ELSE IF GetSupportedFiles(disk) = <<>>
               THEN pc' = "done" /\ outcome' = "returned" /\ UNCHANGED index
               ELSE pc' = "loop" /\ index' = 1 /\ UNCHANGED outcome
  /\ UNCHANGED settings
  /\ UNCHANGED carried
  /\ UNCHANGED gui
  /\ UNCHANGED <<run, origin>>
  /\ UNCHANGED <<env, disk, debug_callback, tesseract_path, poppler_path, results,
                 search_cancelled, use_ocr, req, normalized_term, content,
                 attempted, extracted, calls, cancel>>

\* a loop head that never reads the cancellation flag
LoopIgnoresCancel ==
  /\ pc = "loop"
  /\ IF index > total_files
     THEN pc' = "end" /\ UNCHANGED attempted
     ELSE pc' = "extract" /\ attempted' = attempted + 1
  /\ UNCHANGED settings
  /\ UNCHANGED carried
  /\ UNCHANGED gui
  /\ UNCHANGED <<run, origin>>
  /\ UNCHANGED <<env, disk, debug_callback, tesseract_path, poppler_path, results,
                 search_cancelled, use_ocr, req, normalized_term, files_to_search,
                 index, content, outcome, enumerated, extracted, calls, cancel>>

\* the head of the loop: the next file, unless the list is exhausted or the
\* cancellation flag is set
Loop ==
  /\ pc = "loop"
  /\ IF index > total_files \/ search_cancelled
     THEN pc' = "end" /\ UNCHANGED attempted
     ELSE pc' = "extract" /\ attempted' = attempted + 1
  /\ UNCHANGED settings
  /\ UNCHANGED carried
  /\ UNCHANGED gui
  /\ UNCHANGED <<run, origin>>
  /\ UNCHANGED <<env, disk, debug_callback, tesseract_path, poppler_path, results,
                 search_cancelled, use_ocr, req, normalized_term, files_to_search,
                 index, content, outcome, enumerated, extracted, calls, cancel>>

\* the log line naming the file, then _extract_text_from_file
Extract ==
  /\ pc = "extract"
  /\ \E raised \in DebugLogRaises(HasSink) :
       IF raised
       THEN pc' = "except" /\ UNCHANGED <<content, extracted>>
       ELSE \E o \in ExtractTextFromFile(files_to_search[index], use_ocr, env,
                                         tesseract_path, poppler_path, HasSink) :
              /\ extracted' = Append(extracted, [file |-> index, out |-> o])
              /\ IF o.exc
                 THEN pc' = "except" /\ UNCHANGED content
                 ELSE pc' = "match" /\ content' = o.text
  /\ UNCHANGED settings
  /\ UNCHANGED carried
  /\ UNCHANGED gui
  /\ UNCHANGED <<run, origin>>
  /\ UNCHANGED <<env, disk, debug_callback, tesseract_path, poppler_path, results,
                 search_cancelled, use_ocr, req, normalized_term, files_to_search,
                 index, outcome, enumerated, attempted, calls, cancel>>

\* the test of the content and the record appended on a match; every branch
\* logs before it acts
Match ==
  /\ pc = "match"
  /\ \E raised \in DebugLogRaises(HasSink) :
       IF raised
       THEN pc' = "except" /\ UNCHANGED results
       ELSE /\ pc' = "progress"
            /\ results' =
                 IF Occurrences(normalized_term, content, req.case_sensitive) > 0
                 THEN Append(results,
                             [file |-> index,
                              type |-> files_to_search[index].suffix,
                              occurrences |->
                                Occurrences(normalized_term, content, req.case_sensitive)])
                 ELSE results
  /\ content' = <<>>
  /\ UNCHANGED settings
  /\ UNCHANGED carried
  /\ UNCHANGED gui
  /\ origin' = (IF Len(results') > Len(results) THEN Append(origin, run) ELSE origin)
  /\ UNCHANGED run
  /\ UNCHANGED <<env, disk, debug_callback, tesseract_path, poppler_path,
                 search_cancelled, use_ocr, req, normalized_term, files_to_search,
                 index, outcome, enumerated, attempted, extracted, calls, cancel>>

\* the progress callback, when one was given; it is the caller's function and
\* may raise
Progress ==
  /\ pc = "progress"
  /\ IF req.callback
     THEN /\ calls' = Append(calls, [file |-> index,
                                     progress |-> ProgressValue(index, total_files)])
          /\ \E raised \in BOOLEAN :
               IF raised THEN pc' = "except" /\ UNCHANGED index
               ELSE pc' = "loop" /\ index' = index + 1
     ELSE pc' = "loop" /\ index' = index + 1 /\ UNCHANGED calls
  /\ UNCHANGED settings
  /\ UNCHANGED carried
  /\ UNCHANGED gui
  /\ UNCHANGED <<run, origin>>
  /\ UNCHANGED <<env, disk, debug_callback, tesseract_path, poppler_path, results,
                 search_cancelled, use_ocr, req, normalized_term, files_to_search,
                 content, outcome, enumerated, attempted, extracted, cancel>>

\* the loop's handler: print, log, continue
Except ==
  /\ pc = "except"
  /\ \E raised \in DebugLogRaises(HasSink) :
       IF raised
       THEN pc' = "done" /\ outcome' = "raised" /\ UNCHANGED index
       ELSE pc' = "loop" /\ index' = index + 1 /\ UNCHANGED outcome
  /\ UNCHANGED settings
  /\ UNCHANGED carried
  /\ UNCHANGED gui
  /\ UNCHANGED <<run, origin>>
  /\ UNCHANGED <<env, disk, debug_callback, tesseract_path, poppler_path, results,
                 search_cancelled, use_ocr, req, normalized_term, files_to_search,
                 content, enumerated, attempted, extracted, calls, cancel>>

\* after the loop: the closing log line, then return self.results
End ==
  /\ pc = "end"
  /\ pc' = "done"
  /\ \E raised \in DebugLogRaises(HasSink) :
       outcome' = IF raised THEN "raised" ELSE "returned"
  /\ UNCHANGED settings
  /\ UNCHANGED carried
  /\ UNCHANGED gui
  /\ UNCHANGED <<run, origin>>
  /\ UNCHANGED <<env, disk, debug_callback, tesseract_path, poppler_path, results,
                 search_cancelled, use_ocr, req, normalized_term, files_to_search,
                 index, content, enumerated, attempted, extracted, calls, cancel>>

\* DocumentSearcherGUI._show_debug_window attaches the debug sink
show_debug_window ==
  /\ debug_callback = "None"
  /\ debug_callback' = "sink"
  /\ UNCHANGED settings
  /\ UNCHANGED carried
  /\ UNCHANGED gui
  /\ UNCHANGED <<run, origin>>
  /\ UNCHANGED <<env, disk, tesseract_path, poppler_path, results,
                 search_cancelled, use_ocr, req, pc, normalized_term,
                 files_to_search, index, content, outcome, enumerated, attempted, extracted,
                 calls, cancel>>

Next ==
  \/ show_debug_window
  \/ Call
  \/ cancel_search
  \/ Validate
  \/ Start
  \/ Loop
  \/ Extract
  \/ Match
  \/ Progress
  \/ Except
  \/ End

\* the requests of the calls made one after the other on one engine
RunRequests ==
  [directory : {"docs", "missing"}, search_term : {<<"a">>, <<"A">>},
   case_sensitive : {TRUE}, use_ocr : {FALSE}, callback : {FALSE}]

\* search_in_directory has returned or raised, and the caller prepares its
\* next call on the same engine
NextRequest ==
  /\ pc = "done"
  /\ run < MaxRuns
  /\ pc' = "idle"
  /\ req' \in RunRequests
  /\ normalized_term' = <<>>
  /\ files_to_search' = <<>>
  /\ index' = 0
  /\ content' = <<>>
  /\ outcome' = "none"
  /\ enumerated' = FALSE
  /\ attempted' = 0
  /\ extracted' = <<>>
  /\ calls' = <<>>
  /\ cancel' = NoCancel
  /\ carried' = [cancelled |-> search_cancelled, records |-> Len(results)]
  /\ UNCHANGED <<env, disk, debug_callback, tesseract_path, poppler_path, results,
                 search_cancelled, use_ocr, settings, run, origin, gui>>

\* calls of search_in_directory one after the other
NextRuns ==
  \/ Next
  \/ NextRequest

(* ------------------------------------------------------------------ *)
(* The graphical shell: the handlers run on the GUI thread, one at a    *)
(* time; each search runs in a worker thread of its own, on the one     *)
(* engine of the shell                                                  *)
(* ------------------------------------------------------------------ *)

Workers == 1..MaxRuns

\* the thread has been launched and _perform_search has not returned
Active(w) == threads[w].pc \notin {"unborn", "finished"}

\* the thread is inside search_in_directory
Searching(w) ==
  threads[w].pc \in {"validate", "start", "loop", "extract", "match", "progress",
                     "except", "end"}

\* the files the loop of the thread's search has taken up so far
TakenUp(w) ==
  IF threads[w].pc \in {"extract", "match", "progress", "except"}
  THEN threads[w].index
  ELSE IF threads[w].pc \in {"loop", "end"} THEN threads[w].index - 1
  ELSE 0

\* a callback queued with root.after(0, f, ...)
Event(f, progress, list) == [f |-> f, progress |-> progress, list |-> list]

NoProgress == [num |-> 0, den |-> 1]

\* the list object self.results is bound to, by the number of rebindings
CurrentList == Len(heap)

\* the records of a list object, each with the thread that appended it
Deref(list) ==
  IF list = CurrentList THEN [records |-> results, origin |-> origin]
  ELSE heap[list + 1]

\* what a worker's _debug_log does to the debug window: the sink,
\* _add_debug_message, inserts into debug_text from the calling thread
LogTouches == IF HasSink THEN touched \cup {"debug_text"} ELSE touched

\* the requests _start_search can launch: a directory was selected (it may
\* have been removed since) and the term is not blank
GuiRequests ==
  [directory : {"docs", "missing"}, search_term : {<<"a">>},
   case_sensitive : {FALSE}, use_ocr : {FALSE}, callback : {TRUE}]

\* _start_search past its two checks: _clear_results, the two buttons, and
\* the launch of the thread
StartSearch ==
  /\ \E w \in Workers :
       /\ threads[w].pc = "unborn"
       /\ \A v \in Workers : v < w => threads[v].pc # "unborn"
       /\ \E r \in GuiRequests :
            threads' = [threads EXCEPT ![w] = [@ EXCEPT !.pc = "validate", !.req = r]]
  /\ results_tree' = <<>>
  /\ progress_var' = NoProgress
  /\ search_button' = "disabled"
  /\ cancel_button' = "normal"
  /\ UNCHANGED <<status_var, after_queue, heap, touched, cancelled_at>>
  /\ UNCHANGED <<env, disk, debug_callback, tesseract_path, poppler_path, results,
                 search_cancelled, use_ocr, req, pc, normalized_term, files_to_search,
                 index, content, outcome, enumerated, attempted, extracted, calls,
                 cancel, settings, run, origin, carried>>

\* the search button, when it is enabled
start_search ==
  /\ search_button = "normal"
  /\ StartSearch

\* <Return> in the search entry, bound to _start_search whatever the state
\* of the button
start_search_on_return == StartSearch

\* the cancel button: _cancel_search, which ends with _search_completed
gui_cancel_search ==
  /\ cancel_button = "normal"
  /\ search_cancelled' = TRUE
  /\ status_var' = "cancelled"
  /\ search_button' = "normal"
  /\ cancel_button' = "disabled"
  /\ progress_var' = NoProgress
  /\ cancelled_at' =
       [w \in Workers |->
          IF Searching(w) /\ cancelled_at[w] = -1 THEN TakenUp(w) ELSE cancelled_at[w]]
  /\ UNCHANGED <<results_tree, after_queue, threads, heap, touched>>
  /\ UNCHANGED <<env, disk, debug_callback, tesseract_path, poppler_path, results,
                 use_ocr, req, pc, normalized_term, files_to_search,
                 index, content, outcome, enumerated, attempted, extracted, calls,
                 cancel, settings, run, origin, carried>>

\* the clear button: _clear_results
clear_results ==
  /\ results_tree' = <<>>
  /\ progress_var' = NoProgress
  /\ UNCHANGED <<search_button, cancel_button, status_var, after_queue, threads,
                 heap, touched, cancelled_at>>
  /\ UNCHANGED <<env, disk, debug_callback, tesseract_path, poppler_path, results,
                 search_cancelled, use_ocr, req, pc, normalized_term, files_to_search,
                 index, content, outcome, enumerated, attempted, extracted, calls,
                 cancel, settings, run, origin, carried>>

\* the rows _display_results inserts for a list
Rows(list) ==
  [i \in 1..Len(Deref(list).records) |->
     [file |-> Deref(list).records[i].file,
      occurrences |-> Deref(list).records[i].occurrences,
      run |-> Deref(list).origin[i]]]

\* the event loop of the GUI thread runs the oldest queued callback
run_after ==
  /\ after_queue # <<>>
  /\ after_queue' = Tail(after_queue)
  /\ LET e == Head(after_queue) IN
       /\ progress_var' =
            IF e.f = "progress_var.set" THEN e.progress
            ELSE IF e.f = "_search_completed" THEN NoProgress
            ELSE progress_var
       /\ status_var' =
            IF e.f = "status_var.set" THEN "searching"
            ELSE IF e.f = "_display_results" THEN "completed"
            ELSE status_var
       /\ results_tree' =
            IF e.f = "_display_results" THEN results_tree \o Rows(e.list)
            ELSE results_tree
       /\ search_button' =
            IF e.f = "_search_completed" THEN "normal" ELSE search_button
       /\ cancel_button' =
            IF e.f = "_search_completed" THEN "disabled" ELSE cancel_button
  /\ UNCHANGED <<threads, heap, touched, cancelled_at>>
  /\ UNCHANGED <<env, disk, debug_callback, tesseract_path, poppler_path, results,
                 search_cancelled, use_ocr, req, pc, normalized_term, files_to_search,
                 index, content, outcome, enumerated, attempted, extracted, calls,
                 cancel, settings, run, origin, carried>>

\* what no step of a worker thread writes
WorkerFrame ==
  /\ UNCHANGED <<search_button, cancel_button, results_tree, progress_var,
                 status_var, cancelled_at>>
  /\ UNCHANGED <<env, disk, debug_callback, tesseract_path, poppler_path,
                 req, pc, normalized_term, files_to_search,
                 index, content, outcome, enumerated, attempted, extracted, calls,
                 cancel, settings, run, carried>>

\* the thread's position and locals after a step
Goto(w, to, idx, text, ret, exc) ==
  [threads EXCEPT ![w] = [pc |-> to, req |-> @.req, index |-> idx,
                          content |-> text, ret |-> ret, exc |-> exc]]

\* a worker's search_in_directory: the two checks, then the reset of the
\* run state, which rebinds self.results to a new list
worker_validate ==
  \E w \in Workers :
    /\ threads[w].pc = "validate"
    /\ IF ~RequestIsValid(Exists(threads[w].req.directory), threads[w].req.search_term)
       THEN /\ threads' = Goto(w, "handoff", 0, <<>>, 0, "ValueError")
            /\ UNCHANGED <<results, origin, heap, search_cancelled, use_ocr>>
       ELSE /\ heap' = Append(heap, [records |-> results, origin |-> origin])
            /\ results' = <<>>
            /\ origin' = <<>>
            /\ search_cancelled' = FALSE
            /\ use_ocr' = threads[w].req.use_ocr
            /\ threads' = Goto(w, "start", 0, <<>>, 0, "none")
    /\ UNCHANGED <<after_queue, touched>>
    /\ WorkerFrame

\* a worker's search_in_directory: the opening log lines, the enumeration,
\* the log line with the count, and the return of an empty enumeration
worker_start ==
  \E w \in Workers :
    /\ threads[w].pc = "start"
    /\ \E raised \in DebugLogRaises(HasSink) :
         threads' =
           IF raised THEN Goto(w, "handoff", 0, <<>>, 0, "raised")
           ELSE IF GetSupportedFiles(disk) = <<>>
           THEN Goto(w, "handoff", 0, <<>>, CurrentList, "none")
           ELSE Goto(w, "loop", 1, <<>>, 0, "none")
    /\ touched' = LogTouches
    /\ UNCHANGED <<results, origin, heap, search_cancelled, use_ocr, after_queue>>
    /\ WorkerFrame

\* a worker at the head of the loop
worker_loop ==
  \E w \in Workers :
    /\ threads[w].pc = "loop"
    /\ threads' =
         IF threads[w].index > Len(GetSupportedFiles(disk)) \/ search_cancelled
         THEN Goto(w, "end", threads[w].index, <<>>, 0, "none")
         ELSE Goto(w, "extract", threads[w].index, <<>>, 0, "none")
    /\ UNCHANGED <<results, origin, heap, search_cancelled, use_ocr, after_queue,
                   touched>>
    /\ WorkerFrame

\* a worker logs the file and extracts its text
worker_extract ==
  \E w \in Workers :
    /\ threads[w].pc = "extract"
    /\ \E raised \in DebugLogRaises(HasSink) :
         IF raised
         THEN threads' = Goto(w, "except", threads[w].index, <<>>, 0, "none")
         ELSE \E o \in ExtractTextFromFile(GetSupportedFiles(disk)[threads[w].index],
                                           use_ocr, env, tesseract_path, poppler_path,
                                           HasSink) :
                threads' = IF o.exc
                           THEN Goto(w, "except", threads[w].index, <<>>, 0, "none")
                           ELSE Goto(w, "match", threads[w].index, o.text, 0, "none")
    /\ touched' = LogTouches
    /\ UNCHANGED <<results, origin, heap, search_cancelled, use_ocr, after_queue>>
    /\ WorkerFrame

\* a worker tests the content and appends the record to the list
\* self.results is bound to at that moment
worker_match ==
  \E w \in Workers :
    /\ threads[w].pc = "match"
    /\ \E raised \in DebugLogRaises(HasSink) :
         IF raised
         THEN /\ threads' = Goto(w, "except", threads[w].index, <<>>, 0, "none")
              /\ UNCHANGED <<results, origin>>
         ELSE LET r == threads[w].req
                  n == Occurrences(Normalize(r.search_term, r.case_sensitive),
                                   threads[w].content, r.case_sensitive)
              IN /\ threads' = Goto(w, "progress", threads[w].index, <<>>, 0, "none")
                 /\ results' =
                      IF n > 0
                      THEN Append(results,
                                  [file |-> threads[w].index,
                                   type |-> GetSupportedFiles(disk)[threads[w].index].suffix,
                                   occurrences |-> n])
                      ELSE results
                 /\ origin' = IF n > 0 THEN Append(origin, w) ELSE origin
    /\ touched' = LogTouches
    /\ UNCHANGED <<heap, search_cancelled, use_ocr, after_queue>>
    /\ WorkerFrame

\* a worker calls the progress callback, _update_progress, which queues the
\* two updates
worker_progress ==
  \E w \in Workers :
    /\ threads[w].pc = "progress"
    /\ after_queue' =
         after_queue
         \o <<Event("progress_var.set",
                    ProgressValue(threads[w].index, Len(GetSupportedFiles(disk))), 0),
              Event("status_var.set", NoProgress, 0)>>
    /\ threads' = Goto(w, "loop", threads[w].index + 1, <<>>, 0, "none")
    /\ UNCHANGED <<results, origin, heap, search_cancelled, use_ocr, touched>>
    /\ WorkerFrame

\* a worker in the loop's handler: print, log, continue
worker_except ==
  \E w \in Workers :
    /\ threads[w].pc = "except"
    /\ \E raised \in DebugLogRaises(HasSink) :
         threads' = IF raised THEN Goto(w, "handoff", threads[w].index, <<>>, 0, "raised")
                    ELSE Goto(w, "loop", threads[w].index + 1, <<>>, 0, "none")
    /\ touched' = LogTouches
    /\ UNCHANGED <<results, origin, heap, search_cancelled, use_ocr, after_queue>>
    /\ WorkerFrame

\* a worker after the loop: the closing log line, then return self.results
worker_end ==
  \E w \in Workers :
    /\ threads[w].pc = "end"
    /\ \E raised \in DebugLogRaises(HasSink) :
         threads' = IF raised THEN Goto(w, "handoff", threads[w].index, <<>>, 0, "raised")
                    ELSE Goto(w, "handoff", threads[w].index, <<>>, CurrentList, "none")
    /\ touched' = LogTouches
    /\ UNCHANGED <<results, origin, heap, search_cancelled, use_ocr, after_queue>>
    /\ WorkerFrame

\* _perform_search after search_in_directory: the result or the error is
\* queued for the GUI thread, then _search_completed is
worker_handoff ==
  \E w \in Workers :
    /\ threads[w].pc = "handoff"
    /\ after_queue' =
         after_queue
         \o <<IF threads[w].exc = "none"
              THEN Event("_display_results", NoProgress, threads[w].ret)
              ELSE Event("showerror", NoProgress, 0),
              Event("_search_completed", NoProgress, 0)>>
    /\ threads' = Goto(w, "finished", threads[w].index, <<>>, threads[w].ret,
                       threads[w].exc)
    /\ UNCHANGED <<results, origin, heap, search_cancelled, use_ocr, touched>>
    /\ WorkerFrame

\* the graphical shell and its workers
NextGui ==
  \/ show_debug_window
  \/ start_search
  \/ start_search_on_return
  \/ gui_cancel_search
  \/ clear_results
  \/ run_after
  \/ worker_validate
  \/ worker_start
  \/ worker_loop
  \/ worker_extract
  \/ worker_match
  \/ worker_progress
  \/ worker_except
  \/ worker_end
  \/ worker_handoff

(* ------------------------------------------------------------------ *)
(* The OCR environment: construction of the engine and the set_*_path   *)
(* calls                                                                *)
(* ------------------------------------------------------------------ *)

common_tesseract_paths ==
  <<"C:\\Program Files\\Tesseract-OCR\\tesseract.exe",
    "C:\\Program Files (x86)\\Tesseract-OCR\\tesseract.exe",
    "C:\\Tesseract-OCR\\tesseract.exe">>

\* common_poppler_paths as written, before the glob results are appended
fixed_poppler_paths ==
  <<"C:\\Program Files\\poppler\\Library\\bin",
    "C:\\Program Files (x86)\\poppler\\Library\\bin",
    "C:\\poppler\\Library\\bin">>

\* the directories the pattern C:\TMP\*\poppler-*\Library\bin can match
TmpPopplerDirs == <<"C:\\TMP\\a\\poppler-24\\Library\\bin">>

\* paths a user may hand to set_tesseract_path and set_poppler_path
UserPaths == {"C:\\ocr\\tesseract.exe", "C:\\ocr\\poppler\\bin", "C:\\gone"}

\* os.path.exists on a tool path
PathExists(path) == path \in installed

\* glob.glob(r'C:\TMP\*\poppler-*\Library\bin')
tmp_poppler == SelectSeq(TmpPopplerDirs, PathExists)

\* common_poppler_paths after extend(tmp_poppler)
common_poppler_paths == fixed_poppler_paths \o tmp_poppler

\* a probe that adopts the last candidate that exists
RECURSIVE LastExisting(_)
LastExisting(paths) ==
  IF paths = <<>> THEN "None"
  ELSE IF PathExists(paths[Len(paths)]) THEN paths[Len(paths)]
  ELSE LastExisting(SubSeq(paths, 1, Len(paths) - 1))

\* "for path in paths: if os.path.exists(path): ...; break": the candidate
\* adopted, "None" when the loop ends without one
RECURSIVE FirstExisting(_)
FirstExisting(paths) ==
  IF paths = <<>> THEN "None"
  ELSE IF PathExists(Head(paths)) THEN Head(paths)
  ELSE FirstExisting(Tail(paths))

\* the path _auto_detect_paths leaves in memory for a loaded value and a
\* candidate list
Detected(loaded, paths) ==
  IF env.OCR_AVAILABLE /\ ~IsSet(loaded) /\ FirstExisting(paths) # "None"
  THEN FirstExisting(paths)
  ELSE loaded

\* DocumentSearcher(config_manager): __init__, _load_ocr_config and, when a
\* path is unset, _auto_detect_paths
Construct ==
  /\ pc = "new"
  /\ pc' = "idle"
  /\ results' = <<>>
  /\ search_cancelled' = FALSE
  /\ use_ocr' = FALSE
  /\ debug_callback' = "None"
  /\ LET t == Detected(config.tesseract_path, common_tesseract_paths)
         p == Detected(config.poppler_path, common_poppler_paths)
     IN /\ tesseract_path' = t
        /\ poppler_path' = p
        /\ tesseract_cmd' = IF env.OCR_AVAILABLE /\ IsSet(t) THEN t ELSE tesseract_cmd
        /\ config' = [tesseract_path |-> t, poppler_path |-> p]
  /\ UNCHANGED <<env, disk, req, normalized_term, files_to_search, index, content,
                 outcome, enumerated, attempted, extracted, calls, cancel,
                 installed, pytesseract_bound, last_call, run, origin, carried, gui>>

\* the record of a set_*_path call
Called(op, path, ret) ==
  [op |-> op, path |-> path, ret |-> ret, seq |-> 1 - last_call.seq]

\* a set_tesseract_path that does not test the path
set_tesseract_path_unchecked ==
  /\ pc # "new"
  /\ \E path \in UserPaths \cup {common_tesseract_paths[2]} :
       /\ tesseract_path' = path
       /\ IF pytesseract_bound
          THEN /\ tesseract_cmd' = path
               /\ config' = [config EXCEPT !.tesseract_path = path]
               /\ last_call' = Called("set_tesseract_path", path, "True")
          ELSE /\ UNCHANGED <<tesseract_cmd, config>>
               /\ last_call' = Called("set_tesseract_path", path, "NameError")
  /\ UNCHANGED <<env, disk, debug_callback, poppler_path, results, search_cancelled,
                 use_ocr, req, pc, normalized_term, files_to_search, index, content,
                 outcome, enumerated, attempted, extracted, calls, cancel,
                 installed, pytesseract_bound, run, origin, carried, gui>>

\* set_tesseract_path(path); the assignment to pytesseract's command raises
\* NameError when the import of pytesseract failed
set_tesseract_path ==
  /\ pc # "new"
  /\ \E path \in UserPaths \cup {common_tesseract_paths[2]} :
       IF PathExists(path)
       THEN /\ tesseract_path' = path
            /\ IF pytesseract_bound
               THEN /\ tesseract_cmd' = path
                    /\ config' = [config EXCEPT !.tesseract_path = path]
                    /\ last_call' = Called("set_tesseract_path", path, "True")
               ELSE /\ UNCHANGED <<tesseract_cmd, config>>
                    /\ last_call' = Called("set_tesseract_path", path, "NameError")
       ELSE /\ UNCHANGED <<tesseract_path, tesseract_cmd, config>>
            /\ last_call' = Called("set_tesseract_path", path, "False")
  /\ UNCHANGED <<env, disk, debug_callback, poppler_path, results, search_cancelled,
                 use_ocr, req, pc, normalized_term, files_to_search, index, content,
                 outcome, enumerated, attempted, extracted, calls, cancel,
                 installed, pytesseract_bound, run, origin, carried, gui>>

\* set_poppler_path(path)
set_poppler_path ==
  /\ pc # "new"
  /\ \E path \in UserPaths \cup {fixed_poppler_paths[2]} :
       IF PathExists(path)
       THEN /\ poppler_path' = path
            /\ config' = [config EXCEPT !.poppler_path = path]
            /\ last_call' = Called("set_poppler_path", path, "True")
       ELSE /\ UNCHANGED <<poppler_path, config>>
            /\ last_call' = Called("set_poppler_path", path, "False")
  /\ UNCHANGED <<env, disk, debug_callback, tesseract_path, results, search_cancelled,
                 use_ocr, req, pc, normalized_term, files_to_search, index, content,
                 outcome, enumerated, attempted, extracted, calls, cancel,
                 installed, pytesseract_bound, tesseract_cmd, run, origin, carried, gui>>

\* the engine's construction and configuration
NextConfig ==
  \/ Construct
  \/ set_tesseract_path
  \/ set_poppler_path

(* ------------------------------------------------------------------ *)
(* Initial states: the engine as constructed, a directory on disk, and  *)
(* the arguments of the call to come                                    *)
(* ------------------------------------------------------------------ *)

Texts == SeqsUpTo(Letters, MaxLen)

Terms == SeqsUpTo(Letters \cup {" "}, MaxTermLen)

Requests(directories, terms, cases, ocrs, callbacks) ==
  [directory : directories, search_term : terms, case_sensitive : cases,
   use_ocr : ocrs, callback : callbacks]

Libraries(docx, pdf, excel, ocr) ==
  [DOCX_AVAILABLE : docx, PDF_AVAILABLE : pdf, EXCEL_AVAILABLE : excel,
   OCR_AVAILABLE : ocr]

InitWith(envs, disks, requests, paths) ==
  /\ env \in envs
  /\ disk \in disks
  /\ req \in requests
  /\ tesseract_path \in paths
  /\ poppler_path \in paths
  /\ debug_callback = "None"
  /\ results = <<>>
  /\ search_cancelled = FALSE
  /\ use_ocr = FALSE
  /\ pc = "idle"
  /\ normalized_term = <<>>
  /\ files_to_search = <<>>
  /\ index = 0
  /\ content = <<>>
  /\ outcome = "none"
  /\ enumerated = FALSE
  /\ attempted = 0
  /\ extracted = <<>>
  /\ calls = <<>>
  /\ cancel = NoCancel
  /\ config = [tesseract_path |-> tesseract_path, poppler_path |-> poppler_path]
  /\ installed = {tesseract_path, poppler_path} \ {"None"}
  /\ pytesseract_bound = env.OCR_AVAILABLE
  /\ tesseract_cmd = (IF ~env.OCR_AVAILABLE THEN "unbound"
                      ELSE IF IsSet(tesseract_path) THEN tesseract_path
                      ELSE "tesseract")
  /\ last_call = NoCall
  /\ run = 0
  /\ origin = <<>>
  /\ carried = NothingCarried
  /\ GuiCreated

\* Directories for the control flow of a run: a file that matches, one that
\* does not, one that cannot be read, one with an unsupported extension.
FlowEntries ==
  {TextFile(ExtTxt, <<"a", "a">>), TextFile(ExtHtml, <<"A">>),
   UnreadableFile(ExtTxt), TextFile(ExtJpg, <<"a">>)}

Init ==
  InitWith(Libraries({TRUE}, {TRUE}, {TRUE}, {TRUE}),
           SeqsUpTo(FlowEntries, MaxFiles + 1),
           Requests({"docs", "missing"}, SeqsUpTo({"a", " "}, 1), {TRUE}, {FALSE},
                    BOOLEAN),
           {"None"})

Spec == Init /\ [][Next]_vars

\* Directories for matching: one text file of any content, alone or followed
\* by a second file.
InitText ==
  InitWith(Libraries({TRUE}, {TRUE}, {TRUE}, {TRUE}),
           {<<TextFile(ExtTxt, t)>> : t \in Texts}
             \cup {<<TextFile(ExtTxtUpper, t), TextFile(ExtPhp, <<"a", "A", "a">>)>> :
                     t \in Texts},
           Requests({"docs"}, Terms, BOOLEAN, {FALSE}, {TRUE}),
           {"None"})

SpecText == InitText /\ [][Next]_vars

\* Directories for PDF extraction: one PDF, under every OCR environment.
NativeDocs ==
  {Failed} \cup {Parsed(parts) : parts \in SeqsUpTo({<<>>, <<"a">>}, MaxPages)}

Rasters ==
  {NoRaster}
  \cup {Raster(pages) :
          pages \in SeqsUpTo({NoPage, Page(<<" ">>), Page(<<"a", "a">>)}, MaxPages)}

InitPdf ==
  InitWith(Libraries({TRUE}, BOOLEAN, {TRUE}, BOOLEAN),
           {<<DocFile(ExtPdf, doc, raster)>> : doc \in NativeDocs, raster \in Rasters},
           Requests({"docs"}, {<<"a">>}, {FALSE}, BOOLEAN, {TRUE}),
           {"None", "C:/ocr"})

SpecPdf == InitPdf /\ [][Next]_vars

\* Directories for the walk: supported and unsupported files, a directory
\* whose name ends in a supported extension, and a place where the walk
\* raises PermissionError.
WalkEntries ==
  {TextFile(ExtTxt, <<"a">>), TextFile(ExtTxtUpper, <<"a">>), TextFile(ExtJpg, <<"a">>),
   Directory(ExtTxt), Denied}

InitWalk ==
  InitWith(Libraries({TRUE}, {TRUE}, {TRUE}, {TRUE}),
           SeqsUpTo(WalkEntries, MaxFiles + 1),
           Requests({"docs"}, {<<"a">>}, {TRUE}, {FALSE}, BOOLEAN),
           {"None"})

SpecWalk == InitWalk /\ [][Next]_vars

\* Directories for a sequence of runs: up to MaxFiles text files that match
\* one term, the other, or both.
InitRuns ==
  InitWith(Libraries({TRUE}, {TRUE}, {TRUE}, {TRUE}),
           SeqsUpTo({TextFile(ExtTxt, <<"a">>), TextFile(ExtTxt, <<"A">>),
                     TextFile(ExtTxt, <<"a", "A">>)}, MaxFiles),
           RunRequests,
           {"None"})

SpecRuns == InitRuns /\ [][NextRuns]_vars

\* The shell as started, over a directory that is empty or holds one text
\* file with the term.
InitGui ==
  InitWith(Libraries({TRUE}, {TRUE}, {TRUE}, {TRUE}),
           {<<>>, <<TextFile(ExtTxt, <<"a">>)>>},
           Requests({"docs"}, {<<"a">>}, {FALSE}, {FALSE}, {TRUE}),
           {"None"})

SpecGui == InitGui /\ [][NextGui]_vars

\* every tool path of the model
ToolPaths ==
  UserPaths
  \cup {common_tesseract_paths[i] : i \in 1..Len(common_tesseract_paths)}
  \cup {fixed_poppler_paths[i] : i \in 1..Len(fixed_poppler_paths)}
  \cup {TmpPopplerDirs[i] : i \in 1..Len(TmpPopplerDirs)}

\* Before construction: any set of installed tools, any persisted pair of
\* paths (absent, empty, a user's path, a candidate), with the OCR libraries
\* imported, or not, or not imported after pytesseract was.
InitConfig ==
  /\ env \in Libraries({TRUE}, {TRUE}, {TRUE}, BOOLEAN)
  /\ pytesseract_bound \in (IF env.OCR_AVAILABLE THEN {TRUE} ELSE BOOLEAN)
  /\ tesseract_cmd = (IF pytesseract_bound THEN "tesseract" ELSE "unbound")
  /\ installed \in {U \cup C : U \in {{}, UserPaths \ {"C:\\gone"}},
                               C \in SUBSET (ToolPaths \ UserPaths)}
  /\ config \in [tesseract_path : {"None", "", "C:\\ocr\\tesseract.exe",
                                   common_tesseract_paths[3]},
                 poppler_path : {"None", "C:\\ocr\\poppler\\bin"}]
  /\ last_call = NoCall
  /\ run = 0
  /\ origin = <<>>
  /\ carried = NothingCarried
  /\ GuiCreated
  /\ pc = "new"
  /\ disk = <<>>
  /\ req \in Requests({"docs"}, {<<"a">>}, {FALSE}, {FALSE}, {FALSE})
  /\ tesseract_path = "None"
  /\ poppler_path = "None"
  /\ debug_callback = "None"
  /\ results = <<>>
  /\ search_cancelled = FALSE
  /\ use_ocr = FALSE
  /\ normalized_term = <<>>
  /\ files_to_search = <<>>
  /\ index = 0
  /\ content = <<>>
  /\ outcome = "none"
  /\ enumerated = FALSE
  /\ attempted = 0
  /\ extracted = <<>>
  /\ calls = <<>>
  /\ cancel = NoCancel

SpecConfig == InitConfig /\ [][NextConfig]_vars

(* ------------------------------------------------------------------ *)
(* Properties                                                           *)
(* ------------------------------------------------------------------ *)

\* the term is empty or consists of whitespace only
IsBlank(t) == \A i \in 1..Len(t) : t[i] \in Whitespace

\* the call has passed its validation step
Validated == pc \notin {"idle", "validate"}

\* a / b <= c / d for fractions with positive denominators
FracLeq(x, y) == x.num * y.den <= y.num * x.den

Hundred == [num |-> 100, den |-> 1]

\* every progress value reported so far is below 100
AllBelowHundred ==
  \A k \in 1..Len(calls) : ~FracLeq(Hundred, calls[k].progress)

\* C1: a call whose directory does not exist, or whose term is empty or
\* whitespace-only, ends with the validation error, and nothing was
\* enumerated, extracted or reported to the progress callback.
C1_ValidationFailsFirst ==
  (Validated /\ (~Exists(req.directory) \/ IsBlank(req.search_term)))
    => /\ outcome = "ValueError"
       /\ pc = "done"
       /\ ~enumerated
       /\ extracted = <<>>
       /\ calls = <<>>

C1_Witness ==
  /\ pc = "done"
  /\ outcome = "ValueError"
  /\ Exists(req.directory)
  /\ req.search_term = <<" ">>
  /\ disk # <<>>

\* C2 as stated: once cancellation is requested with N files processed, the
\* returned list holds only records of the first N files, and no file after
\* the N-th is extracted from then on.
C2_OnlyProcessedFiles ==
  (pc = "done" /\ outcome = "returned" /\ cancel.requested)
    => /\ \A i \in 1..Len(results) : results[i].file <= cancel.processed
       /\ \A i \in (cancel.attempts + 1)..Len(extracted) :
            extracted[i].file <= cancel.processed

\* C2 amended: once cancellation is requested, the result list holds only
\* records of the files processed by then and of the one file the loop had
\* already taken up, and no file after that one is extracted.
C2_OnlyStartedFiles ==
  cancel.requested
    => /\ attempted <= cancel.started
       /\ \A i \in 1..Len(results) : results[i].file <= cancel.started
       /\ \A i \in 1..Len(extracted) : extracted[i].file <= cancel.started

C2_Witness ==
  /\ pc = "done"
  /\ outcome = "returned"
  /\ cancel.requested
  /\ cancel.started >= 1
  /\ cancel.started < total_files
  /\ results # <<>>

\* C7: the progress values are positive and at most 100, never decrease, and
\* the value reported for the file at position i of M is i / M * 100.
C7_ProgressValues ==
  \A k \in 1..Len(calls) :
    /\ calls[k].file \in 1..total_files
    /\ calls[k].progress.den > 0
    /\ calls[k].progress.num > 0
    /\ FracLeq(calls[k].progress, Hundred)
    /\ calls[k].progress.num * total_files = calls[k].file * 100 * calls[k].progress.den
    /\ k > 1 => FracLeq(calls[k - 1].progress, calls[k].progress)

C7_Witness ==
  /\ pc = "done"
  /\ Len(calls) >= 3
  /\ calls[1].file = 1
  /\ calls[Len(calls)].file = total_files

\* C8 as stated: 100 is reported only once every enumerated file has been
\* taken up, and in a run during which cancellation was requested the last
\* value reported is below 100.
C8_CancelledBelowHundred ==
  /\ \A k \in 1..Len(calls) :
       FracLeq(Hundred, calls[k].progress) => calls[k].file = total_files
  /\ (cancel.requested /\ calls # <<>>)
       => ~FracLeq(Hundred, calls[Len(calls)].progress)

\* C8 amended: 100 is reported only once every enumerated file has been
\* taken up, and in a run where cancellation was requested before the loop
\* took up the last enumerated file every value reported is below 100.
C8_CancelledEarlyBelowHundred ==
  /\ \A k \in 1..Len(calls) :
       FracLeq(Hundred, calls[k].progress)
         => calls[k].file = total_files /\ attempted = total_files
  /\ (cancel.requested /\ cancel.started < total_files) => AllBelowHundred

C8_Witness ==
  /\ pc = "done"
  /\ outcome = "returned"
  /\ cancel.requested
  /\ cancel.started < total_files
  /\ calls # <<>>
  /\ ~FracLeq(Hundred, calls[Len(calls)].progress)

\* the text _extract_text_from_file returned for the file at position k
Returned(k) ==
  {extracted[i].out.text : i \in {j \in 1..Len(extracted) :
                                    extracted[j].file = k /\ ~extracted[j].out.exc}}

\* the positions at which t occurs in s
Positions(t, s) ==
  {i \in 1..Len(s) : i + Len(t) - 1 <= Len(s) /\ SubSeq(s, i, i + Len(t) - 1) = t}

\* the most occurrences of t in s that can be chosen without two of them
\* sharing a character
MaxDisjoint(t, s) ==
  LET disjoint == {P \in SUBSET Positions(t, s) :
                     \A p, q \in P : p < q => p + Len(t) <= q}
  IN CHOOSE n \in 0..Len(s) :
       /\ \E P \in disjoint : Cardinality(P) = n
       /\ \A P \in disjoint : Cardinality(P) <= n

\* the same letter, in either case
SameLetter(c, d) == c = d \/ {c, d} = {"a", "A"}

\* the strings that differ from s in the case of letters only
CaseVariants(s) ==
  {v \in [1..Len(s) -> Letters \cup Whitespace] :
     \A i \in 1..Len(s) : SameLetter(v[i], s[i])}

\* C3: a run that was not cancelled returns a record for a file exactly when
\* the text extracted from the file, normalized like the term, contains the
\* normalized term; the records are in enumeration order, one per file.
C3_RecordIffMatch ==
  (pc = "done" /\ outcome = "returned" /\ ~cancel.requested)
    => /\ \A k \in 1..total_files :
            (\E i \in 1..Len(results) : results[i].file = k)
              <=> (\E t \in Returned(k) :
                     StrIn(normalized_term, Normalize(t, req.case_sensitive)))
       /\ \A i, j \in 1..Len(results) : i < j => results[i].file < results[j].file

\* C4: the count in every record is the number of non-overlapping
\* occurrences of the normalized term in the normalized text of its file,
\* and is at least 1.
C4_NonOverlappingCount ==
  \A i \in 1..Len(results) :
    /\ results[i].occurrences >= 1
    /\ \A t \in Returned(results[i].file) :
         results[i].occurrences
           = MaxDisjoint(normalized_term, Normalize(t, req.case_sensitive))
    /\ Returned(results[i].file) # {}

C4_Witness ==
  /\ normalized_term = <<"a", "a">>
  /\ \E i \in 1..Len(results) :
       /\ results[i].occurrences = 1
       /\ Returned(results[i].file) = {<<"a", "a", "a">>}

C6_OneCallbackPerFile ==
  (pc = "done" /\ outcome = "returned" /\ req.callback)
    => /\ Len(calls) = attempted
       /\ \A k \in 1..Len(calls) : calls[k].file = k

\* the reader picked for the file at position k fails
ReaderFails(k) ==
  \E o \in Dispatch(files_to_search[k], use_ocr, env, tesseract_path,
                    poppler_path, FALSE) : o.exc

\* C9: when the reader of a file fails, _extract_text_from_file returns the
\* empty text for that file and no exception leaves it.
C9_FailureBecomesEmptyText ==
  \A i \in 1..Len(extracted) :
    ReaderFails(extracted[i].file)
      => ~extracted[i].out.exc /\ extracted[i].out.text = <<>>

\* the native text of a PDF, empty when the native reader fails
NativeText(f) == IF ReadPdf(f, env).exc THEN <<>> ELSE ReadPdf(f, env).text

\* C10: for a PDF, when the run's OCR flag is off, or the OCR libraries or
\* one of the two paths are missing, the text extracted is the native text,
\* neither the rasterizer nor the recognizer is invoked, and nothing is raised.
C10_NativeOnlyWithoutOcr ==
  \A i \in 1..Len(extracted) :
    (/\ Lower(files_to_search[extracted[i].file].suffix) = ExtPdf
     /\ \/ ~use_ocr
        \/ ~env.OCR_AVAILABLE
        \/ ~IsSet(tesseract_path)
        \/ ~IsSet(poppler_path))
      => /\ ~extracted[i].out.exc
         /\ extracted[i].out.text = NativeText(files_to_search[extracted[i].file])
         /\ ~extracted[i].out.raster
         /\ ~extracted[i].out.recog

\* the engine's OCR environment is configured
OcrConfigured ==
  env.OCR_AVAILABLE /\ IsSet(tesseract_path) /\ IsSet(poppler_path)

\* the k-th extraction of the run is that of a PDF under a run with the OCR
\* flag on and a configured OCR environment
OcrSelected(k) ==
  /\ Lower(files_to_search[extracted[k].file].suffix) = ExtPdf
  /\ env.PDF_AVAILABLE
  /\ use_ocr
  /\ OcrConfigured

\* C11: for a PDF, with the OCR flag on and the OCR environment configured,
\* the rasterizer is invoked whatever the native text is, the native reader
\* is never consulted without the rasterizer having been invoked, and the
\* recognizer is called once for every rasterized page.
C11_StraightToOcr ==
  \A k \in 1..Len(extracted) :
    OcrSelected(k)
      => LET f == files_to_search[extracted[k].file]
             o == extracted[k].out
         IN /\ o.raster
            /\ f.raster.ok => o.pages = Len(f.raster.pages)

\* rasterization of the PDF raises, or recognition of one of its pages does
OcrRaises(f) ==
  \/ ~f.raster.ok
  \/ \E i \in 1..Len(f.raster.pages) : ~f.raster.pages[i].ok

\* C12: when OCR is selected for a PDF and rasterization or recognition
\* raises, the extraction raises nothing and returns the native text of the
\* file.
C12_OcrErrorFallsBackToNative ==
  \A k \in 1..Len(extracted) :
    (OcrSelected(k) /\ OcrRaises(files_to_search[extracted[k].file]))
      => /\ ~extracted[k].out.exc
         /\ extracted[k].out.text = NativeText(files_to_search[extracted[k].file])

\* a regular file whose lower-cased extension is supported
IsSupportedFile(e) == e.kind = "file" /\ Lower(e.suffix) \in SUPPORTED_EXTENSIONS

\* the walk meets a permission error somewhere under the root
WalkIsDenied == \E i \in 1..Len(disk) : disk[i].kind = "denied"

\* C13: the enumerator returns exactly the regular files under the root whose
\* lower-cased extension is supported (the empty list when there is none).
C13_EnumeratesSupportedFiles ==
  enumerated => files_to_search = SelectSeq(disk, IsSupportedFile)

\* C14: when the walk meets a permission error, the enumerator still returns
\* every supported file of the readable parts of the tree.
C14_DeniedSubtreeIsSkipped ==
  (enumerated /\ WalkIsDenied) => files_to_search = SelectSeq(disk, IsSupportedFile)

\* the text a run with no sink attached extracts from the file
SinklessText(f) ==
  (CHOOSE o \in ExtractTextFromFile(f, req.use_ocr, env, tesseract_path,
                                     poppler_path, FALSE) : TRUE).text

\* the records a run with no sink attached appends for the files from the
\* k-th on
RECURSIVE SinklessResults(_, _)
SinklessResults(files, k) ==
  IF k > Len(files) THEN <<>>
  ELSE LET n == Occurrences(Normalize(req.search_term, req.case_sensitive),
                            SinklessText(files[k]), req.case_sensitive)
       IN (IF n > 0
           THEN <<[file |-> k, type |-> files[k].suffix, occurrences |-> n]>>
           ELSE <<>>)
          \o SinklessResults(files, k + 1)

\* the progress callbacks a run with no sink attached makes
SinklessCalls(files) ==
  IF req.callback
  THEN [k \in 1..Len(files) |-> [file |-> k, progress |-> ProgressValue(k, Len(files))]]
  ELSE <<>>

\* C17: a run that passed validation and was not cancelled ends as the run
\* of the same request on the same file system with no sink attached does:
\* it returns, with the same result list and the same progress callbacks.
C17_SinkIsPureObservation ==
  (pc = "done" /\ outcome # "ValueError" /\ ~cancel.requested)
    => /\ outcome = "returned"
       /\ results = SinklessResults(GetSupportedFiles(disk), 1)
       /\ calls = SinklessCalls(GetSupportedFiles(disk))

\* the step is a call of set_tesseract_path or set_poppler_path with a path
\* that does not exist
RejectedSetCall ==
  /\ last_call'.seq # last_call.seq
  /\ last_call'.op \in {"set_tesseract_path", "set_poppler_path"}
  /\ ~PathExists(last_call'.path)

\* C18: a set_tesseract_path or set_poppler_path call with a path that does
\* not exist returns False and changes neither the in-memory paths, nor the
\* recognizer command, nor the configuration.
C18_RejectedSetChangesNothing ==
  [][RejectedSetCall
       => /\ last_call'.ret = "False"
          /\ UNCHANGED <<tesseract_path, poppler_path, tesseract_cmd, config>>]_vars

C18_Witness ==
  /\ last_call.op = "set_tesseract_path"
  /\ ~PathExists(last_call.path)
  /\ last_call.ret = "False"
  /\ IsSet(tesseract_path)
  /\ IsSet(config.poppler_path)

\* the step is the construction of the engine
Constructs == pc = "new" /\ pc' # "new"

\* after the step the path in memory and the persisted one are both the first
\* candidate of the list that exists, or both as loaded when none exists
ProbedInOrder(loaded, paths, path_after, persisted_after) ==
  /\ persisted_after = path_after
  /\ \/ /\ \A i \in 1..Len(paths) : ~PathExists(paths[i])
        /\ path_after = loaded
     \/ \E i \in 1..Len(paths) :
          /\ PathExists(paths[i])
          /\ \A j \in 1..(i - 1) : ~PathExists(paths[j])
          /\ path_after = paths[i]

\* after the step the path in memory is the loaded one and the persisted one
\* is unchanged
UsedAsIs(loaded, path_after, persisted_after) ==
  path_after = loaded /\ persisted_after = loaded

\* C19 as stated: construction uses a persisted path as is, and probes the
\* candidate list in order for each path that is unset.
C19_PersistedThenProbed ==
  [][Constructs
       => /\ IF IsSet(config.tesseract_path)
             THEN UsedAsIs(config.tesseract_path, tesseract_path',
                           config'.tesseract_path)
             ELSE ProbedInOrder(config.tesseract_path, common_tesseract_paths,
                                tesseract_path', config'.tesseract_path)
          /\ IF IsSet(config.poppler_path)
             THEN UsedAsIs(config.poppler_path, poppler_path', config'.poppler_path)
             ELSE ProbedInOrder(config.poppler_path, common_poppler_paths,
                                poppler_path', config'.poppler_path)]_vars

\* C19, amended: construction uses a persisted path as is; for each path that
\* is unset it probes the candidate list in order when the OCR libraries are
\* installed, and probes nothing when they are not.
C19_PersistedThenProbedWithOcr ==
  [][Constructs
       => /\ IF IsSet(config.tesseract_path) \/ ~env.OCR_AVAILABLE
             THEN UsedAsIs(config.tesseract_path, tesseract_path',
                           config'.tesseract_path)
             ELSE ProbedInOrder(config.tesseract_path, common_tesseract_paths,
                                tesseract_path', config'.tesseract_path)
          /\ IF IsSet(config.poppler_path) \/ ~env.OCR_AVAILABLE
             THEN UsedAsIs(config.poppler_path, poppler_path', config'.poppler_path)
             ELSE ProbedInOrder(config.poppler_path, common_poppler_paths,
                                poppler_path', config'.poppler_path)]_vars

C19_Witness ==
  /\ pc = "idle"
  /\ last_call = NoCall
  /\ env.OCR_AVAILABLE
  /\ PathExists(common_tesseract_paths[2]) /\ PathExists(common_tesseract_paths[3])
  /\ ~PathExists(common_tesseract_paths[1])
  /\ tesseract_path = common_tesseract_paths[2]
  /\ config.tesseract_path = common_tesseract_paths[2]
  /\ poppler_path = "C:\\ocr\\poppler\\bin"
  /\ PathExists(fixed_poppler_paths[1])

\* the loop of the call has ended before the last enumerated file
StoppedEarly == pc = "end" /\ index <= total_files

\* C20: a call that passed validation starts from an empty list and a false
\* flag; its list never holds a record appended by an earlier call, and its
\* loop stops early only when cancel_search was called during this call,
\* after its reset.
C20_RunStartsFromResetState ==
  /\ (pc = "start") => (results = <<>> /\ (search_cancelled => cancel.requested))
  /\ (Validated /\ outcome # "ValueError")
       => /\ Len(origin) = Len(results)
          /\ \A i \in 1..Len(origin) : origin[i] = run
  /\ StoppedEarly => cancel.requested

C20_Witness ==
  /\ run = 2
  /\ carried.cancelled
  /\ carried.records = 1
  /\ pc = "done"
  /\ outcome = "returned"
  /\ ~search_cancelled
  /\ attempted = 2
  /\ req.search_term = <<"A">>
  /\ results = <<[file |-> 2, type |-> ExtTxt, occurrences |-> 1]>>
  /\ Len(disk) = 2
  /\ disk[1] = TextFile(ExtTxt, <<"a">>)

\* C15: at most one worker thread is running a search at any time, and the
\* search button is disabled for as long as one is.
C15_AtMostOneRunActive ==
  /\ \A v, w \in Workers : (Active(v) /\ Active(w)) => v = w
  /\ (\E w \in Workers : Active(w)) => search_button = "disabled"

\* C16: no widget is ever written from a worker thread.
C16_WorkerNeverWritesWidgets == touched = {}

\* C21: once the cancel button was pressed during a worker's search, the
\* worker takes up no further file: it stops after at most the file it was
\* processing.
C21_CancelIsNotLost ==
  \A w \in Workers :
    (cancelled_at[w] >= 0 /\ Searching(w)) => TakenUp(w) <= cancelled_at[w]

\* C22: once the engine is constructed, the paths in memory are the values
\* the configuration manager holds, and every set_*_path call made so far
\* returned a boolean.
C22_MemoryEqualsConfig ==
  pc # "new"
    => /\ tesseract_path = config.tesseract_path
       /\ poppler_path = config.poppler_path
       /\ last_call.ret \in {"none", "True", "False"}

\* the thread of the most recently started search (0 before the first)
LatestSearch ==
  IF \A w \in Workers : threads[w].pc = "unborn" THEN 0
  ELSE CHOOSE w \in Workers :
         /\ threads[w].pc # "unborn"
         /\ \A v \in Workers : threads[v].pc # "unborn" => v <= w

\* C23: every row of the result table shows a record produced by the most
\* recently started search.
C23_RowsOfLatestSearchOnly ==
  \A i \in 1..Len(results_tree) : results_tree[i].run = LatestSearch

====
